---- MODULE Spec2Model ----
(***************************************************************************)
(* Model of the sparse shadow-memory tracker of src/src/main.rs:           *)
(* ShadowPage (a 4096-byte buffer with a 512-byte dirty bitmap) and        *)
(* ShadowManager (a HashMap from page base to ShadowPage).                 *)
(*                                                                         *)
(* Addresses are u64 in the source.  With beg <= end none of the           *)
(* subtractions or additions of the modelled code can wrap, so addresses   *)
(* are modelled as naturals drawn from a small set spanning three pages.   *)
(* Indexing a fixed-size array out of bounds is a task failure in Rust;    *)
(* it is modelled as the outcome "panic".                                  *)
(***************************************************************************)
EXTENDS Integers, Sequences, FiniteSets, TLC

\* ------------------------------------------------------------------------
\* Constants of the program
\* ------------------------------------------------------------------------

\* const PAGE_SIZE: uint = 0x1000;
PAGE_SIZE == 4096

\* const MASK: [u8, ..8]; MASK[k] of the source is MASK[k + 1] here.
MASK == <<1, 2, 4, 8, 16, 32, 64, 128>>

\* ------------------------------------------------------------------------
\* Bounds of the model
\* ------------------------------------------------------------------------

\* Number of add_byte calls in one behaviour.
MaxRecords == 3

\* Addresses handed to the manager: three pages, both sides of a page
\* boundary, and two bits of one bitmap byte.
Addrs == {0, 1, 4094, 4095, 4096, 5000, 8192}

\* Byte values handed to add_byte.
Bytes == {0, 161}

\* In-page offsets used for the page-level scan.
PageOffs == {0, 1, 7, 8, 9, 4087, 4088, 4095}

\* ------------------------------------------------------------------------
\* Bit arithmetic on u8 / uint
\* ------------------------------------------------------------------------

RECURSIVE BitAnd(_, _)
BitAnd(x, y) ==
    IF x = 0 \/ y = 0 THEN 0
    ELSE (x % 2) * (y % 2) + 2 * BitAnd(x \div 2, y \div 2)

RECURSIVE BitOr(_, _)
BitOr(x, y) ==
    IF x = 0 THEN y
    ELSE IF y = 0 THEN x
    ELSE (IF x % 2 = 1 \/ y % 2 = 1 THEN 1 ELSE 0) + 2 * BitOr(x \div 2, y \div 2)

\* 1 << bit_idx
Shl1(bit_idx) == 2 ^ bit_idx

\* ($inp) & (0 - $alp): alp is a power of two, so the wrapped 0 - alp is the
\* mask that clears the low bits.
align_x(inp, alp) == inp - (inp % alp)

align_next_x(inp, alp) == align_x(inp + (alp - 1), alp)

align_8(inp) == align_x(inp, 8)

align_next_8(inp) == align_next_x(inp, 8)

Max(a, b) == IF a >= b THEN a ELSE b

\* ------------------------------------------------------------------------
\* ShadowPage
\* ------------------------------------------------------------------------

\* ShadowPage { buf: [0, ..PAGE_SIZE], map: [0, ..PAGE_SIZE / 8] }
NewShadowPage ==
    [buf |-> [i \in 0..(PAGE_SIZE - 1) |-> 0],
     map |-> [i \in 0..((PAGE_SIZE \div 8) - 1) |-> 0]]

\* Outcome of a query: ret is "true", "false" or "panic"; map_idx is the
\* largest bitmap index used, rel_offs the largest in-page offset used
\* (-1 when no page was touched).
Outcome(ret, map_idx, rel_offs) ==
    [ret |-> ret, map_idx |-> map_idx, rel_offs |-> rel_offs]

Join(o1, o2) ==
    Outcome(o2.ret, Max(o1.map_idx, o2.map_idx), Max(o1.rel_offs, o2.rel_offs))

InMap(idx) == idx \in 0..((PAGE_SIZE \div 8) - 1)

\* ShadowPage::has_patch without the test of the single bit.
ShadowPage_has_patch_whole_byte(sp, rel_offs) ==
    LET bit_idx == rel_offs \div 8 IN
    IF ~InMap(bit_idx) THEN Outcome("panic", bit_idx, rel_offs)
    ELSE IF sp.map[bit_idx] = 0 THEN Outcome("false", bit_idx, rel_offs)
    ELSE Outcome("true", bit_idx, rel_offs)

ShadowPage_has_patch(sp, rel_offs) ==
    LET bit_idx == rel_offs \div 8 IN
    IF ~InMap(bit_idx) THEN Outcome("panic", bit_idx, rel_offs)
    ELSE IF sp.map[bit_idx] = 0 THEN Outcome("false", bit_idx, rel_offs)
    ELSE IF BitAnd(sp.map[bit_idx], MASK[(rel_offs % 8) + 1]) # 0
         THEN Outcome("true", bit_idx, rel_offs)
         ELSE Outcome("false", bit_idx, rel_offs)

\* State of the loop of ShadowPage::has_patch_in_range: the loop variable i,
\* the offset of the previous iteration, and the outcome once the loop is left.
ScanState(i, last, out) == [i |-> i, last |-> last, done |-> out.ret # "none", out |-> out]

\* scan_step with the loop condition i < end: the last offset is never tested.
scan_step_exclusive_end(sp, end, s) ==
    LET i == s.i IN
    IF ~(i < end) THEN ScanState(i, s.last, Outcome("false", s.last \div 8, s.last))
    ELSE LET i_aligned == align_8(i) IN
         IF ~InMap(i_aligned \div 8)
         THEN ScanState(i, i, Outcome("panic", i_aligned \div 8, i))
         ELSE IF sp.map[i_aligned \div 8] > 0
              THEN LET bit_idx == i - i_aligned IN
                   IF BitAnd(sp.map[i_aligned \div 8], MASK[bit_idx + 1]) # 0
                   THEN ScanState(i, i, Outcome("true", i_aligned \div 8, i))
                   ELSE ScanState(i + 1, i, Outcome("none", -1, -1))
              ELSE ScanState(align_next_8(i + 1), i, Outcome("none", -1, -1))

\* One evaluation of the loop condition and, when it holds, of the loop body.
scan_step(sp, end, s) ==
    LET i == s.i IN
    IF ~(i <= end) THEN ScanState(i, s.last, Outcome("false", s.last \div 8, s.last))
    ELSE LET i_aligned == align_8(i) IN
         IF ~InMap(i_aligned \div 8)
         THEN ScanState(i, i, Outcome("panic", i_aligned \div 8, i))
         ELSE IF sp.map[i_aligned \div 8] > 0
              THEN LET bit_idx == i - i_aligned IN
                   IF BitAnd(sp.map[i_aligned \div 8], MASK[bit_idx + 1]) # 0
                   THEN ScanState(i, i, Outcome("true", i_aligned \div 8, i))
                   ELSE ScanState(i + 1, i, Outcome("none", -1, -1))
              ELSE ScanState(align_next_8(i + 1), i, Outcome("none", -1, -1))

\* scan_step repeated until the loop is left, at most n times.  i grows in
\* every iteration, so the loop is left within end - beg + 2 steps.
RECURSIVE scan_loop(_, _, _, _)
scan_loop(sp, end, s, n) ==
    IF s.done \/ n <= 0 THEN s
    ELSE IF n = 1 THEN scan_step(sp, end, s)
    ELSE LET half == scan_loop(sp, end, s, n \div 2) IN
         IF half.done THEN half ELSE scan_loop(sp, end, half, n - (n \div 2))

ShadowPage_has_patch_in_range(sp, beg, end) ==
    scan_loop(sp, end, ScanState(beg, beg, Outcome("none", -1, -1)),
              Max(end - beg, 0) + 2).out

\* ------------------------------------------------------------------------
\* ShadowManager
\* ------------------------------------------------------------------------

\* get_page_offset with the mask built from the bitmap length PAGE_SIZE / 8.
get_page_offset_map_len(offset) == offset - (offset % (PAGE_SIZE \div 8))

\* offset & (-1 as u64 - PAGE_SIZE as u64 + 1)
get_page_offset(offset) == offset - (offset % PAGE_SIZE)

get_bit_index(rel_offs) == <<rel_offs \div 8, rel_offs % 8>>

\* mark with "=" in place of "|=": the other bits of the bitmap byte are lost.
mark_assign(sp, rel_offs, bit_idx, byte) ==
    [buf |-> [sp.buf EXCEPT ![rel_offs] = byte],
     map |-> [sp.map EXCEPT ![rel_offs \div 8] = Shl1(bit_idx)]]

\* shadow_page.buf[rel_offs] = byte; shadow_page.map[rel_offs / 8] |= 1 << bit_idx;
mark(sp, rel_offs, bit_idx, byte) ==
    [buf |-> [sp.buf EXCEPT ![rel_offs] = byte],
     map |-> [sp.map EXCEPT ![rel_offs \div 8] = BitOr(@, Shl1(bit_idx))]]

ShadowManager_add_byte(pgs, offset, byte) ==
    LET page_offs == get_page_offset(offset)
        rel_offs  == offset - page_offs
        bit_idx   == get_bit_index(rel_offs)[2]
        inserted  == IF page_offs \notin DOMAIN pgs
                     THEN (page_offs :> NewShadowPage) @@ pgs
                     ELSE pgs
    IN  [inserted EXCEPT ![page_offs] = mark(@, rel_offs, bit_idx, byte)]

ShadowManager_has_patch(pgs, abs_offset) ==
    LET page_offs == get_page_offset(abs_offset)
        rel_offs  == abs_offset - page_offs
    IN  IF page_offs \in DOMAIN pgs
        THEN ShadowPage_has_patch(pgs[page_offs], rel_offs)
        ELSE Outcome("false", -1, -1)

\* same_page_query reading a one-address range as empty.
same_page_query_half_open(sm, beg_rel, end_rel) ==
    IF beg_rel = end_rel
    THEN Outcome("false", -1, -1)
    ELSE ShadowPage_has_patch_in_range(sm, beg_rel, end_rel)

\* The branch for a range that begins and ends on the same page.
same_page_query(sm, beg_rel, end_rel) ==
    IF beg_rel = end_rel
    THEN ShadowPage_has_patch(sm, beg_rel)
    ELSE ShadowPage_has_patch_in_range(sm, beg_rel, end_rel)

\* first_page_query that starts after the first address of the range.
first_page_query_skip_first(sm, rel_from) ==
    ShadowPage_has_patch_in_range(sm, rel_from + 1, PAGE_SIZE)

\* The scan of the first page of a range that ends on a later page.
first_page_query(sm, rel_from) ==
    ShadowPage_has_patch_in_range(sm, rel_from, PAGE_SIZE)

\* The scan of the last page of a range that began on an earlier page.
last_page_query(sm, rel_to) ==
    ShadowPage_has_patch_in_range(sm, 0, rel_to)

\* The loop of ShadowManager::has_patch_in_range; acc joins the indexes used
\* by the earlier iterations.
RECURSIVE range_loop(_, _, _, _, _, _, _)
range_loop(pgs, beg, end, cur_page, last_page, on_first_page, acc) ==
    LET on_last_page == (cur_page = last_page) IN
    IF cur_page \notin DOMAIN pgs THEN Join(acc, Outcome("false", -1, -1))
    ELSE LET sm == pgs[cur_page] IN
         IF on_first_page /\ on_last_page
         THEN Join(acc, same_page_query(sm, beg - cur_page, end - cur_page))
         ELSE LET first == IF on_first_page
                           THEN Join(acc, first_page_query(sm, beg - cur_page))
                           ELSE acc
              IN  IF on_first_page /\ first.ret \in {"true", "panic"}
                  THEN first
                  ELSE IF on_last_page
                       THEN Join(first, last_page_query(sm, end - cur_page))
                       ELSE range_loop(pgs, beg, end, cur_page + PAGE_SIZE,
                                       last_page, FALSE, first)

ShadowManager_has_patch_in_range(pgs, beg, end) ==
    range_loop(pgs, beg, end, get_page_offset(beg), get_page_offset(end),
               TRUE, Outcome("false", -1, -1))

\* ------------------------------------------------------------------------
\* State
\* ------------------------------------------------------------------------

VARIABLES
    pages,      \* ShadowManager.pages: page base -> ShadowPage
    recorded,   \* history: the addresses passed to add_byte so far
    last_byte,  \* history: address -> byte of its most recent add_byte
    nrec,       \* history: number of add_byte calls so far
    pc,         \* "idle", "returned" (a call has returned) or "panicked"
    op,         \* the call that returned or panicked
    arg_beg,    \* its first argument
    arg_end,    \* its second argument (the byte for add_byte)
    result      \* its Outcome

vars == <<pages, recorded, last_byte, nrec, pc, op, arg_beg, arg_end, result>>

NoCall == Outcome("none", -1, -1)

\* ShadowManager::new()
Init ==
    /\ pages = << >>
    /\ recorded = {}
    /\ last_byte = << >>
    /\ nrec = 0
    /\ pc = "idle"
    /\ op = "none"
    /\ arg_beg = 0
    /\ arg_end = 0
    /\ result = NoCall

Finish(o) ==
    /\ result' = o
    /\ pc' = IF o.ret = "panic" THEN "panicked" ELSE "returned"

add_byte(offset, byte) ==
    /\ pc = "idle"
    /\ nrec < MaxRecords
    /\ pages' = ShadowManager_add_byte(pages, offset, byte)
    /\ recorded' = recorded \cup {offset}
    /\ last_byte' = (offset :> byte) @@ last_byte
    /\ nrec' = nrec + 1
    /\ op' = "add_byte"
    /\ arg_beg' = offset
    /\ arg_end' = byte
    /\ LET rel_offs == offset - get_page_offset(offset) IN
       Finish(Outcome("unit", rel_offs \div 8, rel_offs))

has_patch(abs_offset) ==
    /\ pc = "idle"
    /\ op' = "has_patch"
    /\ arg_beg' = abs_offset
    /\ arg_end' = abs_offset
    /\ Finish(ShadowManager_has_patch(pages, abs_offset))
    /\ UNCHANGED <<pages, recorded, last_byte, nrec>>

has_patch_in_range(beg, end) ==
    /\ pc = "idle"
    /\ beg <= end
    /\ op' = "has_patch_in_range"
    /\ arg_beg' = beg
    /\ arg_end' = end
    /\ Finish(ShadowManager_has_patch_in_range(pages, beg, end))
    /\ UNCHANGED <<pages, recorded, last_byte, nrec>>

\* The caller takes the result and is ready for its next call.
Return ==
    /\ pc = "returned"
    /\ pc' = "idle"
    /\ op' = "none"
    /\ arg_beg' = 0
    /\ arg_end' = 0
    /\ result' = NoCall
    /\ UNCHANGED <<pages, recorded, last_byte, nrec>>

Next ==
    \/ \E offset \in Addrs, byte \in Bytes : add_byte(offset, byte)
    \/ \E abs_offset \in Addrs : has_patch(abs_offset)
    \/ \E beg \in Addrs, end \in Addrs : has_patch_in_range(beg, end)
    \/ Return

Spec == Init /\ [][Next]_vars

\* ------------------------------------------------------------------------
\* The page scan on its own: a manager holding one page whose marked offsets
\* are any non-empty subset of PageOffs, as a sequence of add_byte calls
\* leaves it.
\* ------------------------------------------------------------------------

RECURSIVE add_all(_, _, _)
add_all(pgs, S, byte) ==
    IF S = {} THEN pgs
    ELSE LET a == CHOOSE x \in S : TRUE IN
         add_all(ShadowManager_add_byte(pgs, a, byte), S \ {a}, byte)

InitPage ==
    \E S \in (SUBSET PageOffs) \ {{}}, base \in {0, PAGE_SIZE}, byte \in Bytes :
        LET A == {base + o : o \in S} IN
        /\ pages = add_all(<< >>, A, byte)
        /\ recorded = A
        /\ last_byte = [a \in A |-> byte]
        /\ nrec = Cardinality(A)
        /\ pc = "idle"
        /\ op = "none"
        /\ arg_beg = 0
        /\ arg_end = 0
        /\ result = NoCall

\* A call of ShadowPage::has_patch_in_range on the page at base p.
page_has_patch_in_range(p, beg, end) ==
    /\ pc = "idle"
    /\ p \in DOMAIN pages
    /\ beg <= end
    /\ op' = "page_has_patch_in_range"
    /\ arg_beg' = beg
    /\ arg_end' = end
    /\ Finish(ShadowPage_has_patch_in_range(pages[p], beg, end))
    /\ UNCHANGED <<pages, recorded, last_byte, nrec>>

NextPage ==
    \/ \E p \in DOMAIN pages, beg \in PageOffs, end \in PageOffs :
           page_has_patch_in_range(p, beg, end)
    \/ \E p \in DOMAIN pages, beg \in PageOffs, end \in PageOffs :
           has_patch_in_range(p + beg, p + end)
    \/ Return

SpecPage == InitPage /\ [][NextPage]_vars

\* ------------------------------------------------------------------------
\* Properties
\* ------------------------------------------------------------------------

Called(o) == pc # "idle" /\ op = o

Multi == get_page_offset(arg_beg) # get_page_offset(arg_end)

RecordedIn(beg, end) == \E a \in recorded : beg <= a /\ a <= end

\* C1: whenever some address a with beg <= a <= end is marked
\* (is_marked(a) is true), is_marked_in_range(beg, end) returns true, for
\* every range, also one spanning several pages.
C1_RangeContainment ==
    Called("has_patch_in_range") =>
        ((\E a \in Addrs : /\ arg_beg <= a
                           /\ a <= arg_end
                           /\ ShadowManager_has_patch(pages, a).ret = "true")
            => result.ret = "true")

\* C2: when no address of [beg, end] was ever recorded,
\* is_marked_in_range(beg, end) completes and returns false, also for a
\* range over several pages whose first page is allocated.
C2_NegativeRange ==
    (Called("has_patch_in_range") /\ ~RecordedIn(arg_beg, arg_end))
        => result.ret = "false"

\* C3: no operation indexes a page's buffer or bitmap out of bounds: every
\* in-page offset used is below PAGE_SIZE, every bitmap index used is below
\* PAGE_SIZE / 8, and every operation returns.
C3_NoOutOfBounds ==
    pc # "idle" =>
        /\ result.ret # "panic"
        /\ result.rel_offs < PAGE_SIZE
        /\ result.map_idx < PAGE_SIZE \div 8

\* C4: every address recorded at least once is marked, and the byte stored
\* for it is the byte of its most recent record, also when that byte is 0
\* and whatever was recorded elsewhere afterwards.
C4_RecordedMarkedAndStored ==
    /\ \A a \in recorded :
          LET page_offs == get_page_offset(a) IN
          /\ ShadowManager_has_patch(pages, a).ret = "true"
          /\ page_offs \in DOMAIN pages
          /\ pages[page_offs].buf[a - page_offs] = last_byte[a]
    /\ (Called("has_patch") /\ arg_beg \in recorded) => result.ret = "true"

C4_Witness ==
    /\ Called("has_patch")
    /\ arg_beg \in recorded
    /\ last_byte[arg_beg] = 0
    /\ \E b \in recorded : b # arg_beg /\ b \div 8 = arg_beg \div 8
    /\ \E b \in recorded : get_page_offset(b) # get_page_offset(arg_beg)
    /\ result.ret = "true"

\* C5: an address never passed to record is not marked, whether its page is
\* absent or exists because of other addresses, other bits of the same
\* bitmap byte included.
C5_NeverRecordedUnmarked ==
    /\ \A a \in Addrs \ recorded : ShadowManager_has_patch(pages, a).ret = "false"
    /\ (Called("has_patch") /\ arg_beg \notin recorded) => result.ret = "false"

C5_Witness ==
    /\ Called("has_patch")
    /\ arg_beg \notin recorded
    /\ \E b \in recorded : b \div 8 = arg_beg \div 8
    /\ result.ret = "false"

\* C6: is_marked_in_range(a, a) returns the same boolean as is_marked(a),
\* whether or not a page is allocated at a's page base.
C6_SinglePointRange ==
    /\ \A a \in Addrs :
          ShadowManager_has_patch_in_range(pages, a, a).ret
              = ShadowManager_has_patch(pages, a).ret
    /\ (Called("has_patch_in_range") /\ arg_beg = arg_end)
          => result.ret = ShadowManager_has_patch(pages, arg_beg).ret

C6_Witness ==
    /\ Called("has_patch_in_range")
    /\ arg_beg = arg_end
    /\ arg_beg \in recorded
    /\ result.ret = "true"
    /\ \E a \in Addrs : get_page_offset(a) \notin DOMAIN pages

\* C7: when a recorded address a lies on the page of beg with beg <= a, and
\* end lies on a later page, is_marked_in_range(beg, end) returns true,
\* whether or not the later pages are allocated; so after
\* record(0x1000 - 1, v), is_marked_in_range(0x1000 - 2, 0x1000) is true.
C7_CrossPageDetection ==
    (/\ Called("has_patch_in_range")
     /\ \E a \in recorded : /\ arg_beg <= a
                            /\ get_page_offset(a) = get_page_offset(arg_beg)
                            /\ get_page_offset(arg_end) > get_page_offset(a))
        => result.ret = "true"

C7_Witness ==
    /\ Called("has_patch_in_range")
    /\ recorded = {PAGE_SIZE - 1}
    /\ arg_beg = PAGE_SIZE - 2
    /\ arg_end = PAGE_SIZE
    /\ PAGE_SIZE \notin DOMAIN pages
    /\ result.ret = "true"

\* C8: every key of the page table is a multiple of PAGE_SIZE; a page
\* exists at base p iff some address of [p, p + PAGE_SIZE - 1] has been
\* recorded; queries never create or remove pages; no page is removed or
\* replaced once created.
PageTableInv ==
    /\ \A p \in DOMAIN pages : p % PAGE_SIZE = 0
    /\ \A p \in {get_page_offset(a) : a \in Addrs} \cup DOMAIN pages :
          p \in DOMAIN pages <=> RecordedIn(p, p + PAGE_SIZE - 1)

\* The page at base p is the same page before and after the step, but for
\* the byte and the bit of an address recorded by the step.
PageKept(p) ==
    /\ p \in DOMAIN pages'
    /\ \/ pages'[p] = pages[p]
       \/ /\ op' = "add_byte"
          /\ get_page_offset(arg_beg') = p
          /\ LET rel == arg_beg' - p IN
             /\ [pages'[p].buf EXCEPT ![rel] = pages[p].buf[rel]] = pages[p].buf
             /\ [pages'[p].map EXCEPT ![rel \div 8] = pages[p].map[rel \div 8]]
                    = pages[p].map
             /\ BitAnd(pages'[p].map[rel \div 8], pages[p].map[rel \div 8])
                    = pages[p].map[rel \div 8]

PageTableStep ==
    /\ \A p \in DOMAIN pages : PageKept(p)
    /\ op' \in {"has_patch", "has_patch_in_range"} => pages' = pages

C8_PageTable == []PageTableInv /\ [][PageTableStep]_vars

C8_Witness ==
    /\ Called("has_patch_in_range")
    /\ Cardinality(DOMAIN pages) = 2
    /\ Cardinality(recorded) = 3
    /\ get_page_offset(arg_beg) \notin DOMAIN pages

\* What C9 says a range over several pages returns.
C9_Reference(beg, end) ==
    LET first == get_page_offset(beg)
        last  == get_page_offset(end)
        later == {p \in {get_page_offset(a) : a \in Addrs} : first < p /\ p <= last}
    IN  IF first \notin DOMAIN pages THEN "false"
        ELSE IF RecordedIn(beg, first + PAGE_SIZE - 1) THEN "true"
        ELSE IF \E p \in later : p \notin DOMAIN pages THEN "false"
        ELSE IF RecordedIn(last, end) THEN "true" ELSE "false"

\* C9: for beg and end on different pages, is_marked_in_range(beg, end)
\* walks the page bases from the first to the last and returns false at the
\* first base without a page, true when the first page has a mark in
\* [rel_begin, PAGE_SIZE - 1], and otherwise the test of [0, rel_end] on the
\* last page, never testing the pages in between; it always returns one of
\* these booleans.
C9_MultiPageReference ==
    (Called("has_patch_in_range") /\ Multi)
        => result.ret = C9_Reference(arg_beg, arg_end)

\* C10: for offsets 0 <= beg <= end <= PAGE_SIZE - 1 the stride-skipping
\* page scan returns true iff some offset of [beg, end] is marked; hence for
\* beg <= end on one page the manager's is_marked_in_range(beg, end) is true
\* iff some address of [beg, end] was recorded.
C10_SinglePageExact ==
    /\ Called("page_has_patch_in_range") =>
          \A p \in DOMAIN pages :
              result.ret = IF RecordedIn(p + arg_beg, p + arg_end)
                           THEN "true" ELSE "false"
    /\ (Called("has_patch_in_range") /\ ~Multi) =>
          result.ret = IF RecordedIn(arg_beg, arg_end) THEN "true" ELSE "false"

\* A scan that skips empty bitmap bytes, passes unmarked bits of a non-empty
\* one and then finds the mark.
C10_Witness ==
    /\ Called("page_has_patch_in_range")
    /\ arg_beg = 1
    /\ arg_end = PAGE_SIZE - 1
    /\ \A p \in DOMAIN pages : recorded = {p, p + PAGE_SIZE - 1}
    /\ result.ret = "true"

TypeOK ==
    /\ DOMAIN pages \subseteq {0, PAGE_SIZE, 2 * PAGE_SIZE}
    /\ recorded \subseteq Addrs
    /\ DOMAIN last_byte = recorded
    /\ nrec \in 0..MaxRecords
    /\ pc \in {"idle", "returned", "panicked"}
====
